---- MODULE Spec2Model ----
(***************************************************************************)
(* Model of kolbm/FreeBody, src/app.py: the Streamlit script main() that   *)
(* collects the parameters of a free body diagram and draw_fbd() that lays *)
(* out the force arrows, their labels and the "direction of motion" arrow. *)
(*                                                                         *)
(* Coordinates are kept on an integer lattice of Unit points per scene     *)
(* unit (1.0 = 90): the grid np.linspace(-1, 1, 10) has step 2/9 and the   *)
(* offsets of the code are 0.5, 0.3, 0.1 and 1.5, all exact on it.         *)
(* Magnitudes are whole newtons.  Python indexes from 0, sequences here    *)
(* from 1.                                                                 *)
(***************************************************************************)
EXTENDS Integers, Sequences, FiniteSets, TLC

VARIABLES
    simple_mode,       \* checkbox of line 141
    angled_mode,       \* checkbox of line 142
    motion_arrow,      \* checkbox of line 143
    motion_direction,  \* selectbox of line 144
    forces,            \* the list of line 148, as line 181 fills it
    directions,        \* the list of line 149
    angles,            \* the list of line 152
    scene,             \* the figure draw_fbd returned to line 188, NoScene if none
    show_resultant,    \* whether the caller asked for a resultant
    resultant,         \* what the caller was given for it
    memo               \* history: a render made earlier, with its parameters

----------------------------------------------------------------------------
(* Bounds of the model *)

\* most forces the number_input is stepped up to (the widget allows 10)
MaxForces == 2

\* texts typed into a "Magnitude (N):" box
MagnitudeTexts == {"", "-5", "0", "1", "10", "60"}

\* values typed into an "Angle (degrees):" box
AngleValues == {0, 45, 270}

----------------------------------------------------------------------------
(* Numbers *)

Unit == 9 * 10

\* 0.5, the factor of lines 72-75
HalfUnit == Unit \div 2

\* 0.3, the label offset of lines 84-85 and arrow_length of line 107
LabelOffset == (3 * Unit) \div 10

arrow_length == (3 * Unit) \div 10

\* 0.1, the offset of the "Direction of Motion" text, line 110
TextOffset == Unit \div 10

\* 1.5, ax.set_xlim / ax.set_ylim, lines 117-118
ViewLimit == (3 * Unit) \div 2

\* np.linspace(-1, 1, 10): ten samples
GridSamples == 10

Abs(x) == IF x < 0 THEN -x ELSE x

\* a / b rounded to the nearest integer, halves away from zero (b > 0)
RoundDiv(a, b) == IF a >= 0 THEN (2 * a + b) \div (2 * b) ELSE -((2 * (-a) + b) \div (2 * b))

----------------------------------------------------------------------------
(* float64 as np.exp, + and < use it in the density search, lines 94-102.  *)
(* A non-negative float is m * 2^e with a MantissaBits-bit mantissa (the   *)
(* model keeps 15 bits where float64 keeps 53); the exponent range is      *)
(* float64's, so that results below 2^-1074 round to 0.0 as they do there. *)

MantissaBits == 15

FloatMinExp == -1074

FZero == [m |-> 0, e |-> 0]

RECURSIVE FNorm(_, _)
FNorm(m, e) ==
    IF m = 0 THEN FZero
    ELSE IF m >= 2^MantissaBits THEN FNorm(m \div 2, e + 1)
    ELSE IF m < 2^(MantissaBits - 1) THEN FNorm(m * 2, e - 1)
    ELSE [m |-> m, e |-> e]

\* m * 2^e rounded to a multiple of 2^FloatMinExp when it lies below it
FRound(m, e) ==
    IF e >= FloatMinExp THEN FNorm(m, e)
    ELSE LET shift == FloatMinExp - e IN
         IF shift > MantissaBits + 1 THEN FZero
         ELSE FNorm((m + 2^(shift - 1)) \div 2^shift, FloatMinExp)

FLess(a, b) ==
    IF b.m = 0 THEN FALSE
    ELSE IF a.m = 0 THEN TRUE
    ELSE a.e < b.e \/ (a.e = b.e /\ a.m < b.m)

FAdd(a, b) ==
    IF a.m = 0 THEN b
    ELSE IF b.m = 0 THEN a
    ELSE LET hi == IF a.e >= b.e THEN a ELSE b
             lo == IF a.e >= b.e THEN b ELSE a
             shift == hi.e - lo.e
         IN IF shift > MantissaBits + 1 THEN hi
            ELSE FNorm(hi.m + (lo.m \div 2^shift), hi.e)

\* 2 * Unit^2 * ln 2 = 11228.98: q / Unit^2 nats are 2q / Log2Den binary orders
Log2Den == 11229

\* round(2^15 * 2^(-k/16)), k = 0 .. 16
Pow2NegTable ==
    <<32768, 31379, 30048, 28774, 27554, 26386, 25268, 24196, 23170,
      22188, 21247, 20347, 19484, 18658, 17867, 17109, 16384>>

\* np.exp(-q / Unit^2) for a squared distance q on the lattice
ExpNeg(q) ==
    LET n == (2 * q) \div Log2Den
        r == (2 * q) % Log2Den
        k == (16 * r) \div Log2Den
        rem == (16 * r) % Log2Den
        m == Pow2NegTable[k + 1]
               - (((Pow2NegTable[k + 1] - Pow2NegTable[k + 2]) * rem) \div Log2Den)
    IN IF n > -FloatMinExp THEN FZero
       ELSE FRound(m, -MantissaBits - n)

----------------------------------------------------------------------------
(* Values passed from main() to draw_fbd() *)

\* a magnitude: None, or a number
None == [known |-> FALSE, val |-> 0]

Known(v) == [known |-> TRUE, val |-> v]

\* text.strip().replace('.', '', 1).isdigit(), line 163: digits only, so a
\* sign makes the text no number
IsDigitText(text) == text \in {"0", "1", "5", "10", "60"}

FloatOf(text) ==
    CASE text = "0" -> 0
      [] text = "1" -> 1
      [] text = "5" -> 5
      [] text = "10" -> 10
      [] text = "60" -> 60

\* line 163
ParseMagnitude(text) == IF IsDigitText(text) THEN Known(FloatOf(text)) ELSE None

direction_options == {"Up", "Down", "Left", "Right"}

direction_map == [Up |-> <<0, 1>>, Down |-> <<0, -1>>, Left |-> <<-1, 0>>, Right |-> <<1, 0>>]

\* np.cos(np.radians(a)) and np.sin(np.radians(a)) in thousandths, with the
\* sign of the float64 result: cos(270 deg) is -1.8e-16 and sin(180 deg) is
\* 1.2e-16, which are 0 on the lattice but not for "dx >= 0" (lines 84-85)
np_cos(a) ==
    CASE a = 0 -> [milli |-> 1000, neg |-> FALSE]
      [] a = 45 -> [milli |-> 707, neg |-> FALSE]
      [] a = 90 -> [milli |-> 0, neg |-> FALSE]
      [] a = 135 -> [milli |-> -707, neg |-> TRUE]
      [] a = 180 -> [milli |-> -1000, neg |-> TRUE]
      [] a = 225 -> [milli |-> -707, neg |-> TRUE]
      [] a = 270 -> [milli |-> 0, neg |-> TRUE]
      [] a = 315 -> [milli |-> 707, neg |-> FALSE]

np_sin(a) ==
    CASE a = 0 -> [milli |-> 0, neg |-> FALSE]
      [] a = 45 -> [milli |-> 707, neg |-> FALSE]
      [] a = 90 -> [milli |-> 1000, neg |-> FALSE]
      [] a = 135 -> [milli |-> 707, neg |-> FALSE]
      [] a = 180 -> [milli |-> 0, neg |-> FALSE]
      [] a = 225 -> [milli |-> -707, neg |-> TRUE]
      [] a = 270 -> [milli |-> -1000, neg |-> TRUE]
      [] a = 315 -> [milli |-> -707, neg |-> TRUE]

----------------------------------------------------------------------------
(* draw_fbd, lines 40-121.  p is the record of its parameters. *)

\* line 66: the magnitude the loop works with
EffectiveForce(p, i) == IF ~p.simple_mode THEN p.forces[i] ELSE Known(1)

\* mutant: line 67 without "force <= 0"
Drawable_NoSignTest(force) == force.known

\* line 67 negated: the loop body runs for force i
Drawable(force) == force.known /\ force.val > 0

\* line 75 raises KeyError for a token that direction_map lacks
RaisesKeyError(p, i) == ~p.angled_mode /\ p.directions[i] \notin DOMAIN direction_map

\* mutant: lines 72-75 without the factor 0.5
Displacement_NoHalf(p, i, force) ==
    IF p.angled_mode
    THEN LET c == np_cos(p.angles[i])
             s == np_sin(p.angles[i])
         IN [dx |-> RoundDiv(force * Unit * c.milli, 1000),
             dy |-> RoundDiv(force * Unit * s.milli, 1000),
             dx_neg |-> c.neg, dy_neg |-> s.neg]
    ELSE LET component == direction_map[p.directions[i]]
         IN [dx |-> component[1] * force * Unit,
             dy |-> component[2] * force * Unit,
             dx_neg |-> component[1] < 0, dy_neg |-> component[2] < 0]

\* lines 70-75: dx, dy, and whether each is negative as a float
Displacement(p, i, force) ==
    IF p.angled_mode
    THEN LET c == np_cos(p.angles[i])
             s == np_sin(p.angles[i])
         IN [dx |-> RoundDiv(force * HalfUnit * c.milli, 1000),
             dy |-> RoundDiv(force * HalfUnit * s.milli, 1000),
             dx_neg |-> c.neg, dy_neg |-> s.neg]
    ELSE LET component == direction_map[p.directions[i]]
         IN [dx |-> component[1] * force * HalfUnit,
             dy |-> component[2] * force * HalfUnit,
             dx_neg |-> component[1] < 0, dy_neg |-> component[2] < 0]

\* mutant: lines 84-85 with the offset 0.3 whatever the sign
LabelAnchor_OneSign(d) == <<d.dx + LabelOffset, d.dy + LabelOffset>>

\* lines 84-87
LabelAnchor(d) ==
    LET label_offset_x == IF ~d.dx_neg THEN LabelOffset ELSE -LabelOffset
        label_offset_y == IF ~d.dy_neg THEN LabelOffset ELSE -LabelOffset
    IN <<d.dx + label_offset_x, d.dy + label_offset_y>>

\* lines 64-89: the loop over the forces.  acc collects the arrows (line 78),
\* the points (line 81) and the label texts (line 89); raised is set when
\* line 75 raises, which ends draw_fbd
RECURSIVE ForceLoop(_, _, _)
ForceLoop(p, i, acc) ==
    IF i > Len(p.forces) THEN acc
    ELSE LET force == EffectiveForce(p, i) IN
         IF ~Drawable(force) THEN ForceLoop(p, i + 1, acc)
         ELSE IF RaisesKeyError(p, i) THEN [acc EXCEPT !.raised = TRUE]
         ELSE LET d == Displacement(p, i, force.val)
                  a == LabelAnchor(d)
              IN ForceLoop(p, i + 1,
                     [arrows |-> Append(acc.arrows, [i |-> i, dx |-> d.dx, dy |-> d.dy]),
                      points |-> Append(acc.points, <<d.dx, d.dy>>),
                      texts |-> Append(acc.texts, [i |-> i, x |-> a[1], y |-> a[2]]),
                      raised |-> FALSE])

\* np.linspace(-1, 1, 10)[k], lines 92-93
Grid(k) == -Unit + (k * 2 * Unit) \div (GridSamples - 1)

\* the k-th candidate of lines 97-98: gx is the outer loop, gy the inner
Candidate(k) == <<Grid(k \div GridSamples), Grid(k % GridSamples)>>

Candidates == 0 .. (GridSamples * GridSamples - 1)

\* (gx - px)**2 + (gy - py)**2, line 99
SquaredDistance(c, pt) ==
    (c[1] - pt[1]) * (c[1] - pt[1]) + (c[2] - pt[2]) * (c[2] - pt[2])

\* the tips (dx, dy) that the magnitudes, directions and angles of the model
\* can produce
Tips ==
    {<<d.dx, d.dy>> : d \in
        {Displacement([angled_mode |-> t[1] = "", directions |-> <<t[1]>>, angles |-> <<t[2]>>], 1, v) :
            t \in (direction_options \X {0}) \cup ({""} \X AngleValues),
            v \in {1} \cup {FloatOf(text) : text \in {x \in MagnitudeTexts : IsDigitText(x)}}}}

\* np.exp(-((gx - px)**2 + (gy - py)**2)), line 99, for every candidate and tip
Kernel == [pt \in Tips |-> [k \in Candidates |-> ExpNeg(SquaredDistance(Candidate(k), pt))]]

\* line 99: sum(np.exp(...) for px, py in points), the sum starting at 0
RECURSIVE DensitySum(_, _, _)
DensitySum(k, points, j) ==
    IF j > Len(points) THEN FZero
    ELSE IF j = Len(points) THEN Kernel[points[j]][k]
    ELSE FAdd(Kernel[points[j]][k], DensitySum(k, points, j + 1))

Density(k, points) == DensitySum(k, points, 1)

\* mutant: line 100 with <= for <
Denser_OrEqual(density, st) == st.inf \/ ~FLess(st.min_density, density)

\* mutant: line 94 with min_density starting at 0
Denser_FromZero(density, st) == ~st.inf /\ FLess(density, st.min_density)

\* line 100: density < min_density, min_density starting at float('inf')
Denser(density, st) == st.inf \/ FLess(density, st.min_density)

\* lines 98-102: the inner loop, for gy in grid_y, at the ix-th gx
RECURSIVE SearchInner(_, _, _, _)
SearchInner(points, ix, iy, st) ==
    IF iy = GridSamples THEN st
    ELSE LET k == ix * GridSamples + iy
             density == Density(k, points)
         IN IF Denser(density, st)
            THEN SearchInner(points, ix, iy + 1,
                             [inf |-> FALSE, min_density |-> density,
                              best_position |-> Candidate(k)])
            ELSE SearchInner(points, ix, iy + 1, st)

\* lines 97-102: the outer loop, for gx in grid_x
RECURSIVE Search(_, _, _)
Search(points, ix, st) ==
    IF ix = GridSamples THEN st
    ELSE Search(points, ix + 1, SearchInner(points, ix, 0, st))

\* lines 94-95
SearchStart == [inf |-> TRUE, min_density |-> FZero, best_position |-> <<0, 0>>]

\* lines 94-102 run once for every list of points that line 81 can build
\* from the tips of the model (the search reads nothing but points), kept as
\* a tree: found is the result for the list so far, density what line 99
\* computes for it at each candidate, more[t] the subtree of the lists that
\* go on with tip t
RECURSIVE SearchTree(_)
SearchTree(points) ==
    [found |-> Search(points, 0, SearchStart),
     density |-> [k \in Candidates |-> Density(k, points)],
     more |-> IF Len(points) < MaxForces
              THEN [t \in Tips |-> SearchTree(Append(points, t))]
              ELSE <<>>]

SearchResults == SearchTree(<<>>)

RECURSIVE Lookup(_, _, _)
Lookup(tree, points, j) ==
    IF j > Len(points) THEN tree
    ELSE Lookup(tree.more[points[j]], points, j + 1)

\* min_density and best_position after line 102
SearchOf(points) == Lookup(SearchResults, points, 1).found

\* the density of line 99 at every candidate
DensityOf(points) == Lookup(SearchResults, points, 1).density

NoMotion == [drawn |-> FALSE, origin |-> <<0, 0>>, tip |-> <<0, 0>>, text |-> <<0, 0>>]

\* lines 105-111
MotionArrow(p, best_position) ==
    IF ~p.motion_arrow THEN NoMotion
    ELSE LET m == direction_map[p.motion_direction] IN
         [drawn |-> TRUE,
          origin |-> best_position,
          tip |-> <<best_position[1] + arrow_length * m[1],
                    best_position[2] + arrow_length * m[2]>>,
          text |-> <<best_position[1] + TextOffset * m[1],
                     best_position[2] + TextOffset * m[2]>>]

NoScene ==
    [status |-> "none", arrows |-> <<>>, points |-> <<>>, texts |-> <<>>,
     best_position |-> <<0, 0>>, motion |-> NoMotion]

\* draw_fbd ended by the KeyError of line 75 or line 106: no figure is returned
Raised == [NoScene EXCEPT !.status = "KeyError"]

\* mutant: line 41 drawing on the figure of the call before (plt.gcf())
NewFigure_Reused ==
    [arrows |-> scene.arrows, points |-> <<>>, texts |-> scene.texts, raised |-> FALSE]

\* lines 41 and 64: a new figure with nothing drawn on it, and points = []
NewFigure == [arrows |-> <<>>, points |-> <<>>, texts |-> <<>>, raised |-> FALSE]

draw_fbd(p) ==
    LET acc == ForceLoop(p, 1, NewFigure)
    IN IF acc.raised THEN Raised
       ELSE IF p.motion_arrow /\ p.motion_direction \notin DOMAIN direction_map THEN Raised
       ELSE LET st == SearchOf(acc.points) IN
            [status |-> "fig", arrows |-> acc.arrows, points |-> acc.points,
             texts |-> acc.texts, best_position |-> st.best_position,
             motion |-> MotionArrow(p, st.best_position)]

----------------------------------------------------------------------------
(* main(), lines 124-222: every change of a widget reruns the script, which *)
(* rebuilds the lists of lines 148-184 from the widgets and draws the       *)
(* diagram only in the run that the "Generate Diagram" button started.      *)

vars == <<simple_mode, angled_mode, motion_arrow, motion_direction, forces,
          directions, angles, scene, show_resultant, resultant, memo>>

\* the arguments of the call of line 188
Params ==
    [forces |-> forces, directions |-> directions, angles |-> angles,
     simple_mode |-> simple_mode, angled_mode |-> angled_mode,
     motion_arrow |-> motion_arrow, motion_direction |-> motion_direction]

NoResultant == [status |-> "not requested", vector |-> <<0, 0>>]

NoMemo == [taken |-> FALSE, between |-> FALSE, params |-> <<>>, scene |-> NoScene]

\* what a widget yields before the user touches it
\* lines 161-165: an empty text box, or 1 in simple mode
DefaultMagnitude(simple) == IF simple THEN Known(1) ELSE ParseMagnitude("")

\* lines 168-172: the first option of the selectbox, or "" in angled mode
DefaultDirection(angled) == IF angled THEN "" ELSE "Up"

\* lines 170, 173: the placeholder 0, or the number_input's value=0
DefaultAngle == 0

Fill(n, x) == [i \in 1..n |-> x]

Min(a, b) == IF a < b THEN a ELSE b

\* the number_input of line 138 starts at 4; the model starts at its bound
\* when that is lower
DefaultNumForces == Min(4, MaxForces)

Init ==
    /\ simple_mode = TRUE
    /\ angled_mode = FALSE
    /\ motion_arrow = TRUE
    /\ motion_direction = "Up"
    /\ forces = Fill(DefaultNumForces, DefaultMagnitude(TRUE))
    /\ directions = Fill(DefaultNumForces, DefaultDirection(FALSE))
    /\ angles = Fill(DefaultNumForces, DefaultAngle)
    /\ scene = NoScene
    /\ show_resultant = FALSE
    /\ resultant = NoResultant
    /\ memo = NoMemo

\* a rerun that the button did not start shows no diagram (line 187)
Rerun == scene' = NoScene /\ UNCHANGED <<show_resultant, resultant, memo>>

\* line 138, stepped up: lines 156-184 add one force with fresh widgets
AddForce ==
    /\ Len(forces) < MaxForces
    /\ forces' = Append(forces, DefaultMagnitude(simple_mode))
    /\ directions' = Append(directions, DefaultDirection(angled_mode))
    /\ angles' = Append(angles, DefaultAngle)
    /\ UNCHANGED <<simple_mode, angled_mode, motion_arrow, motion_direction>>
    /\ Rerun

\* line 138, stepped down (min_value=1)
RemoveForce ==
    /\ Len(forces) > 1
    /\ forces' = SubSeq(forces, 1, Len(forces) - 1)
    /\ directions' = SubSeq(directions, 1, Len(directions) - 1)
    /\ angles' = SubSeq(angles, 1, Len(angles) - 1)
    /\ UNCHANGED <<simple_mode, angled_mode, motion_arrow, motion_direction>>
    /\ Rerun

\* line 141: in simple mode every magnitude is 1 (line 165); out of it the
\* text boxes of line 162 are new and empty
ToggleSimple ==
    /\ simple_mode' = ~simple_mode
    /\ forces' = Fill(Len(forces), DefaultMagnitude(~simple_mode))
    /\ UNCHANGED <<angled_mode, motion_arrow, motion_direction, directions, angles>>
    /\ Rerun

\* line 142: lines 168-174 swap the selectboxes for the angle inputs
ToggleAngled ==
    /\ angled_mode' = ~angled_mode
    /\ directions' = Fill(Len(forces), DefaultDirection(~angled_mode))
    /\ angles' = Fill(Len(forces), DefaultAngle)
    /\ UNCHANGED <<simple_mode, motion_arrow, motion_direction, forces>>
    /\ Rerun

\* line 143
ToggleMotion ==
    /\ motion_arrow' = ~motion_arrow
    /\ UNCHANGED <<simple_mode, angled_mode, motion_direction, forces, directions, angles>>
    /\ Rerun

\* line 144
SetMotionDirection(d) ==
    /\ motion_direction' = d
    /\ UNCHANGED <<simple_mode, angled_mode, motion_arrow, forces, directions, angles>>
    /\ Rerun

\* lines 161-163: a text typed into the magnitude box of force i
SetMagnitude(i, text) ==
    /\ ~simple_mode
    /\ forces' = [forces EXCEPT ![i] = ParseMagnitude(text)]
    /\ UNCHANGED <<simple_mode, angled_mode, motion_arrow, motion_direction, directions, angles>>
    /\ Rerun

\* lines 168-170
SetDirection(i, d) ==
    /\ ~angled_mode
    /\ directions' = [directions EXCEPT ![i] = d]
    /\ UNCHANGED <<simple_mode, angled_mode, motion_arrow, motion_direction, forces, angles>>
    /\ Rerun

\* lines 171-174
SetAngle(i, a) ==
    /\ angled_mode
    /\ angles' = [angles EXCEPT ![i] = a]
    /\ UNCHANGED <<simple_mode, angled_mode, motion_arrow, motion_direction, forces, directions>>
    /\ Rerun

\* lines 187-189: the button
Generate ==
    /\ scene' = draw_fbd(Params)
    /\ UNCHANGED <<simple_mode, angled_mode, motion_arrow, motion_direction, forces,
                   directions, angles, show_resultant, resultant, memo>>

Next ==
    \/ AddForce
    \/ RemoveForce
    \/ ToggleSimple
    \/ ToggleAngled
    \/ ToggleMotion
    \/ \E d \in direction_options : SetMotionDirection(d)
    \/ \E i \in 1..Len(forces), text \in MagnitudeTexts : SetMagnitude(i, text)
    \/ \E i \in 1..Len(forces), d \in direction_options : SetDirection(i, d)
    \/ \E i \in 1..Len(forces), a \in AngleValues : SetAngle(i, a)
    \/ Generate

Spec == Init /\ [][Next]_vars

----------------------------------------------------------------------------
(* The same script, with the history of one earlier render kept in memo.   *)
(* The texts and directions are fewer, to keep the pairs of renders        *)
(* countable: RepeatTexts and RepeatDirections.                            *)

RepeatTexts == {"", "1"}

RepeatDirections == {"Up", "Left"}

\* the button; memo keeps the first render it chooses to keep, and notes
\* whether a render with other parameters came after it
GenerateRecorded ==
    /\ scene' = draw_fbd(Params)
    /\ \/ /\ ~memo.taken
          /\ memo' = [taken |-> TRUE, between |-> FALSE, params |-> Params, scene |-> scene']
       \/ /\ ~memo.taken
          /\ memo' = memo
       \/ /\ memo.taken
          /\ memo' = [memo EXCEPT !.between = memo.between \/ Params # memo.params]
    /\ UNCHANGED <<simple_mode, angled_mode, motion_arrow, motion_direction, forces,
                   directions, angles, show_resultant, resultant>>

RepeatNext ==
    \/ AddForce
    \/ RemoveForce
    \/ ToggleSimple
    \/ ToggleMotion
    \/ \E i \in 1..Len(forces), text \in RepeatTexts : SetMagnitude(i, text)
    \/ \E i \in 1..Len(forces), d \in RepeatDirections : SetDirection(i, d)
    \/ GenerateRecorded

RepeatSpec == Init /\ [][RepeatNext]_vars

----------------------------------------------------------------------------
(* draw_fbd called with one set of arguments: the initial state holds the  *)
(* arguments, CallRender is the call.                                      *)

Magnitudes == {ParseMagnitude(text) : text \in MagnitudeTexts} \cup {Known(1)}

\* the tokens of direction_map and one that it lacks
EngineTokens == direction_options \cup {"Diagonal"}

\* the displacements already laid out, summed by component
RECURSIVE SumPoints(_, _)
SumPoints(points, k) ==
    IF k = 0 THEN <<0, 0>>
    ELSE LET rest == SumPoints(points, k - 1)
         IN <<rest[1] + points[k][1], rest[2] + points[k][2]>>

\* a force of unknown magnitude makes the diagram incomplete
Incomplete(p) == \E i \in 1..Len(p.forces) : ~p.forces[i].known

\* mutant: the sum of what was drawn, whether or not the diagram is complete
ResultantOf_PartialSum(p, sc, requested) ==
    IF ~requested \/ sc.status # "fig" THEN NoResultant
    ELSE [status |-> "vector", vector |-> SumPoints(sc.points, Len(sc.points))]

\* the Resultant Calculator: the sum of the displacements laid out, or the
\* signal that it cannot be computed
ResultantOf(p, sc, requested) ==
    IF ~requested \/ sc.status # "fig" THEN NoResultant
    ELSE IF Incomplete(p) THEN [status |-> "ResultantUnavailable", vector |-> <<0, 0>>]
    ELSE [status |-> "vector", vector |-> SumPoints(sc.points, Len(sc.points))]

\* arguments as any caller of draw_fbd may pass them
EngineInit ==
    /\ simple_mode \in BOOLEAN
    /\ angled_mode \in BOOLEAN
    /\ motion_arrow \in BOOLEAN
    /\ motion_direction \in {"Up", "Diagonal"}
    /\ \E n \in 1..MaxForces :
          /\ forces \in [1..n -> Magnitudes]
          /\ directions \in IF angled_mode THEN {Fill(n, "")} ELSE [1..n -> EngineTokens]
          /\ angles \in IF angled_mode THEN [1..n -> AngleValues] ELSE {Fill(n, 0)}
    /\ scene = NoScene
    /\ show_resultant = FALSE
    /\ resultant = NoResultant
    /\ memo = NoMemo

\* arguments as main() passes them, and a request for the resultant or none
ResultantInit ==
    /\ simple_mode \in BOOLEAN
    /\ angled_mode \in BOOLEAN
    /\ motion_arrow \in BOOLEAN
    /\ motion_direction = "Up"
    /\ \E n \in 1..MaxForces :
          /\ forces \in IF simple_mode THEN {Fill(n, Known(1))} ELSE [1..n -> Magnitudes]
          /\ directions \in IF angled_mode THEN {Fill(n, "")} ELSE [1..n -> direction_options]
          /\ angles \in IF angled_mode THEN [1..n -> AngleValues] ELSE {Fill(n, 0)}
    /\ scene = NoScene
    /\ show_resultant \in BOOLEAN
    /\ resultant = NoResultant
    /\ memo = NoMemo

CallRender ==
    /\ scene.status = "none"
    /\ scene' = draw_fbd(Params)
    /\ resultant' = ResultantOf(Params, scene', show_resultant)
    /\ UNCHANGED <<simple_mode, angled_mode, motion_arrow, motion_direction, forces,
                   directions, angles, show_resultant, memo>>

EngineSpec == EngineInit /\ [][CallRender]_vars

ResultantSpec == ResultantInit /\ [][CallRender]_vars

----------------------------------------------------------------------------
(* Properties of a diagram drawn by the button *)

Drawn == scene.status = "fig"

ArrowIndices == {scene.arrows[k].i : k \in 1..Len(scene.arrows)}

TextIndices == {scene.texts[k].i : k \in 1..Len(scene.texts)}

KnownPositive(f) == f.known /\ f.val > 0

C1_WitnessZero ==
    Drawn /\ \E i \in 1..Len(forces) : forces[i] = Known(0) /\ i \notin ArrowIndices

MaxOf(S) == CHOOSE x \in S : \A y \in S : y <= x

KnownMagnitudes == {forces[i].val : i \in {j \in 1..Len(forces) : forces[j].known}}

\* C3 as claimed: every arrow is as long as its magnitude times
\* 2.0 / max(known magnitudes).
C3_ScaledByMax ==
    (Drawn /\ ~angled_mode) =>
        \A k \in 1..Len(scene.arrows) :
            (Abs(scene.arrows[k].dx) + Abs(scene.arrows[k].dy)) * MaxOf(KnownMagnitudes)
                = 2 * Unit * forces[scene.arrows[k].i].val

\* the length 0.5 * magnitude, squared, within the rounding of the lattice
NearSquare(sq, length) ==
    LET slack == 2 + length \div 500
    IN /\ sq >= (length - slack) * (length - slack)
       /\ sq <= (length + slack) * (length + slack)

\* C3 as amended: every arrow is as long as 0.5 times its magnitude, whatever
\* the other magnitudes are; along an axis in direction mode.
C3_ScaledByHalf ==
    Drawn =>
        \A k \in 1..Len(scene.arrows) :
            LET a == scene.arrows[k]
                length == HalfUnit * forces[a.i].val
            IN IF angled_mode
               THEN NearSquare(a.dx * a.dx + a.dy * a.dy, length)
               ELSE /\ Abs(a.dx) + Abs(a.dy) = length
                    /\ a.dx = 0 \/ a.dy = 0

\* a diagram of two forces of different magnitudes, both drawn
C3_Witness ==
    /\ Drawn
    /\ Len(scene.arrows) = 2
    /\ forces[scene.arrows[1].i].val # forces[scene.arrows[2].i].val

\* C4: the position chosen is a candidate of the grid, no candidate has a
\* smaller density, and it is the first, in the order of the scan (gx outer,
\* gy inner), of the candidates with that density.
C4_FirstMinimum ==
    Drawn =>
        \E b \in Candidates :
            /\ Candidate(b) = scene.best_position
            /\ \A k \in Candidates :
                  /\ ~FLess(DensityOf(scene.points)[k], DensityOf(scene.points)[b])
                  /\ DensityOf(scene.points)[k] = DensityOf(scene.points)[b] => b <= k

\* two or more points, and a second candidate as good as the chosen one
C4_Witness ==
    /\ Drawn
    /\ Len(scene.points) >= 2
    /\ \E b, k \in Candidates :
          /\ Candidate(b) = scene.best_position
          /\ k # b
          /\ DensityOf(scene.points)[k] = DensityOf(scene.points)[b]
          /\ DensityOf(scene.points)[k].m > 0

C6_FarthestFromOnePoint ==
    (Drawn /\ Len(scene.points) = 1) =>
        \A k \in Candidates :
            SquaredDistance(Candidate(k), scene.points[1])
                <= SquaredDistance(scene.best_position, scene.points[1])

InView(pt) == Abs(pt[1]) <= ViewLimit /\ Abs(pt[2]) <= ViewLimit

\* C7: the tip of every arrow, the anchor of every label, and the origin and
\* tip of the motion arrow lie within the limits of the axes.
C7_InsideView ==
    Drawn =>
        /\ \A k \in 1..Len(scene.arrows) : InView(<<scene.arrows[k].dx, scene.arrows[k].dy>>)
        /\ \A k \in 1..Len(scene.texts) : InView(<<scene.texts[k].x, scene.texts[k].y>>)
        /\ scene.motion.drawn => InView(scene.motion.origin) /\ InView(scene.motion.tip)

SquaredNorm(x, y) == x * x + y * y

\* twice the area of the triangle center, tip, anchor: 0 when the anchor is on
\* the line of the shaft
Cross(k) ==
    scene.arrows[k].dx * scene.texts[k].y - scene.arrows[k].dy * scene.texts[k].x

\* C10 as claimed: the anchor of every label is farther from the center than
\* the tip and off the line of the shaft.
C10_AnchorOffShaft ==
    Drawn =>
        \A k \in 1..Len(scene.arrows) :
            /\ SquaredNorm(scene.texts[k].x, scene.texts[k].y)
                 > SquaredNorm(scene.arrows[k].dx, scene.arrows[k].dy)
            /\ Cross(k) # 0

\* C10 as amended: the anchor is farther from the center than the tip, and
\* off the line of the shaft unless the force lies on a diagonal (|dx| = |dy|).
C10_AnchorOffShaftButDiagonal ==
    Drawn =>
        \A k \in 1..Len(scene.arrows) :
            /\ scene.texts[k].i = scene.arrows[k].i
            /\ SquaredNorm(scene.texts[k].x, scene.texts[k].y)
                 > SquaredNorm(scene.arrows[k].dx, scene.arrows[k].dy)
            /\ Cross(k) = 0 <=> Abs(scene.arrows[k].dx) = Abs(scene.arrows[k].dy)

\* an angled force off the diagonals and a direction force, each with its label
C10_Witness ==
    /\ Drawn
    /\ Len(scene.arrows) >= 1
    /\ \/ angled_mode /\ scene.arrows[1].dx < 0 /\ scene.arrows[1].dy > 0
       \/ ~angled_mode /\ scene.arrows[1].dx < 0

\* the sum of 0.5 * magnitude * direction over the forces, from the arguments
RECURSIVE SumOfForces(_)
SumOfForces(k) ==
    IF k = 0 THEN <<0, 0>>
    ELSE LET rest == SumOfForces(k - 1)
             c == direction_map[directions[k]]
         IN <<rest[1] + c[1] * HalfUnit * forces[k].val,
              rest[2] + c[2] * HalfUnit * forces[k].val>>

RECURSIVE SumOfArrows(_)
SumOfArrows(k) ==
    IF k = 0 THEN <<0, 0>>
    ELSE <<SumOfArrows(k - 1)[1] + scene.arrows[k].dx,
           SumOfArrows(k - 1)[2] + scene.arrows[k].dy>>

AllKnown == \A i \in 1..Len(forces) : forces[i].known

C2_WitnessUnavailable ==
    /\ Drawn /\ show_resultant /\ ~AllKnown
    /\ Len(scene.arrows) >= 1
    /\ resultant.status = "ResultantUnavailable"

BadToken(i) == ~angled_mode /\ directions[i] \notin direction_options

\* C8: a direction token that is none of Up, Down, Left, Right does not end
\* the render: the force that has it is left out, and every other force with
\* a magnitude to draw is drawn.
C8_BadTokenSkipsOneForce ==
    (/\ scene.status # "none"
     /\ motion_direction \in direction_options
     /\ \E i \in 1..Len(forces) : BadToken(i)) =>
        /\ scene.status = "fig"
        /\ \A i \in 1..Len(forces) :
              i \in ArrowIndices <=> (~BadToken(i) /\ Drawable(EffectiveForce(Params, i)))

====
